---- MODULE Spec2Model ----
(***************************************************************************)
(* The WebSQL key-value store of replicache-sample-websql:                 *)
(*   src/frontend/websql-kvstore.ts  WebSQLKVStore, WebSQLTransaction      *)
(*   src/frontend/app.tsx            the earlier copy of the store kept in *)
(*                                   that file: WebSQLRead, WebSQLWrite    *)
(* together with the part of the WebSQL engine the code drives through     *)
(* db.transaction / db.readTransaction and tx.executeSql: a transaction    *)
(* is delivered to its callback, runs its queued statements in order, is   *)
(* rolled back when a statement's error callback returns true, and ends    *)
(* by itself once its statement queue is empty.                            *)
(***************************************************************************)
EXTENDS Integers, Sequences, FiniteSets, TLC

(* ------------------------------ bounds -------------------------------- *)

\* transactions handed out by the store in one behaviour
MaxTx == 2
\* calls made in one behaviour: has, get, put, del, commit and release on
\* transactions, close and refused calls on the store
MaxOps == 3
\* statements and transactions the engine fails in one behaviour
MaxFaults == 1
\* calls an owner makes against the rules of the interface in one behaviour
MaxStray == 1
\* items of an array and members of an object in the values encoded
MaxLen == 2
\* calls of put, del and commit on what read() returned in one behaviour
MaxUntyped == 2

Keys == {"a", "b"}
TxIds == 1..MaxTx

(* ---------------------------- JSON values ----------------------------- *)

\* A value is a tree: an atom (items empty, tag its JSON token), an array
\* (tag "["), or an object (tag "{", its items the members in insertion
\* order, a member being tag ":" over its key and its value).  undefined
\* and a value JSON.stringify throws on (a BigInt, a cyclic structure) are
\* atoms that are no JSON values.
Atom(tok) == [tag |-> tok, items |-> <<>>]
Arr(vs) == [tag |-> "[", items |-> vs]
Member(key, v) == [tag |-> ":", items |-> <<Atom(key), v>>]
Obj(ms) == [tag |-> "{", items |-> ms]
Undefined == Atom("undefined")
Unencodable == Atom("bigint")
JTrue == Atom("true")
JFalse == Atom("false")

\* the values put() is called with
PutValues == {Atom("1"), Arr(<<Atom("2")>>), Unencodable}
\* the values of the rows the table may hold before the store is used
StoredValues == {Atom("null")}

RECURSIVE Throws(_)
\* JSON.stringify(v) throws
Throws(v) ==
  \/ v = Unencodable
  \/ \E i \in 1..Len(v.items) : Throws(v.items[i])

RECURSIVE JSONstringify(_)
RECURSIVE JoinItems(_, _)
JoinItems(vs, i) ==
  IF i > Len(vs) THEN <<>>
  ELSE (IF i > 1 THEN <<",">> ELSE <<>>) \o JSONstringify(vs[i]) \o JoinItems(vs, i + 1)

\* the text of v, as its sequence of tokens; undefined inside an array is
\* written as null, a member whose value is undefined is left out
JSONstringify(v) ==
  IF v.tag = "[" THEN <<"[">> \o JoinItems(v.items, 1) \o <<"]">>
  ELSE IF v.tag = "{"
  THEN <<"{">> \o JoinItems(SelectSeq(v.items, LAMBDA m : m.items[2] # Undefined), 1) \o <<"}">>
  ELSE IF v.tag = ":" THEN <<v.items[1].tag, ":">> \o JSONstringify(v.items[2])
  ELSE IF v = Undefined THEN <<"null">>
  ELSE <<v.tag>>

RECURSIVE ParseValue(_)
RECURSIVE ParseItems(_, _)
RECURSIVE ParseMembers(_, _)
\* one value off the front of toks: [val, rest]
ParseValue(toks) ==
  IF Head(toks) = "[" THEN ParseItems(Tail(toks), <<>>)
  ELSE IF Head(toks) = "{" THEN ParseMembers(Tail(toks), <<>>)
  ELSE [val |-> Atom(Head(toks)), rest |-> Tail(toks)]

\* the members of an object, up to its closing brace: key, colon, value
ParseMembers(toks, acc) ==
  IF Head(toks) = "}" THEN [val |-> Obj(acc), rest |-> Tail(toks)]
  ELSE IF Head(toks) = "," THEN ParseMembers(Tail(toks), acc)
  ELSE LET r == ParseValue(Tail(Tail(toks)))
       IN ParseMembers(r.rest, Append(acc, Member(Head(toks), r.val)))

ParseItems(toks, acc) ==
  IF Head(toks) = "]" THEN [val |-> Arr(acc), rest |-> Tail(toks)]
  ELSE IF Head(toks) = "," THEN ParseItems(Tail(toks), acc)
  ELSE LET r == ParseValue(toks) IN ParseItems(r.rest, Append(acc, r.val))

\* a parse that reads null as a missing value
JSONparseLoose(text) ==
  IF ParseValue(text).val = Atom("null") THEN Undefined ELSE ParseValue(text).val

JSONparse(text) == ParseValue(text).val

\* the JSON values a caller may put: scalars, arrays and objects of up to
\* MaxLen scalars, and an array and an object around each of those
JAtoms == {Atom("1"), Atom("\"s\""), Atom("true"), Atom("null")}
JKeys == {"\"x\"", "\"y\""}
SeqsUpTo(S, n) == UNION {[1..m -> S] : m \in 0..n}
MemberSeqs(S) ==
  {ms \in SeqsUpTo({Member(key, v) : key \in JKeys, v \in S}, MaxLen) :
     \A i, j \in 1..Len(ms) : ms[i].items[1] = ms[j].items[1] => i = j}
JFlat ==
  JAtoms \cup {Arr(vs) : vs \in SeqsUpTo(JAtoms, MaxLen)} \cup {Obj(ms) : ms \in MemberSeqs(JAtoms)}
JSONValues ==
  JFlat \cup {Arr(<<v>>) : v \in JFlat} \cup {Obj(<<Member("\"x\"", v)>>) : v \in JFlat}

(* ------------------------- the backing table -------------------------- *)

\* a row of entry(k, v): v the JSON text; by names the transaction whose
\* statement wrote or deleted the row last (0: the content before the run)
NoRow(w) == [present |-> FALSE, v |-> <<>>, by |-> w]
Row(text, w) == [present |-> TRUE, v |-> text, by |-> w]
\* the table before the run: a key with a row and a key without
InitialTables == {[k \in Keys |-> IF k = "a" THEN Row(JSONstringify(v), 0) ELSE NoRow(0)] :
                   v \in StoredValues}

(* ------------------------ the transaction cache ----------------------- *)

CacheHas(c, k) == \E i \in 1..Len(c) : c[i].key = k
CacheGet(c, k) == c[CHOOSE i \in 1..Len(c) : c[i].key = k]
\* a Map whose set() keeps the entry a key already has
CacheSetKeepFirst(c, k, val, d) ==
  IF CacheHas(c, k) THEN c
  ELSE Append(c, [key |-> k, value |-> val, dirty |-> d])

\* Map.set: an existing key keeps its place, a new key goes last
CacheSet(c, k, val, d) ==
  LET e == [key |-> k, value |-> val, dirty |-> d]
  IN IF CacheHas(c, k)
     THEN [i \in 1..Len(c) |-> IF c[i].key = k THEN e ELSE c[i]]
     ELSE Append(c, e)

RECURSIVE SelectDirty(_)
\* [...cache.entries()].filter(([, entry]) => entry.dirty)
SelectDirty(c) ==
  IF c = <<>> THEN <<>>
  ELSE (IF Head(c).dirty THEN <<Head(c)>> ELSE <<>>) \o SelectDirty(Tail(c))

(* ------------------------------- state -------------------------------- *)

VARIABLES
  impl,        \* which copy of the store runs: "kvstore" (websql-kvstore.ts) or "app" (app.tsx)
  db,          \* WebSQLKVStore._db: "open" (a Database) or "undefined"
  writeable,   \* per transaction: the writeable argument of its constructor
  tx,          \* per transaction: _tx, "promise" or "undefined"; "none": not constructed
  cache,       \* per transaction: _cache (kvstore) or _pending (app), in Map order
  calls,       \* the has/get/commit calls that are awaiting
  sqltx,       \* per transaction: its SQLTransaction in the engine
  queue,       \* per transaction: the statements queued on its SQLTransaction
  table,       \* the committed content of the entry table
  work,        \* the entry table as the active writable SQLTransaction sees it
  ops,         \* number of calls made so far
  strays,      \* number of calls made against the rules of the interface so far
  faults,      \* number of statements and transactions the engine has failed so far
  last,        \* the call the last step settled, and how; NoLast when it settled none
  staged,      \* per transaction and key: the value of the last put/del, if any
  lookups,     \* per transaction and key: select statements passed to executeSQL (0, 1, many)
  commits,     \* per transaction: "none"; "called": commit() awaits; "ok", "failed": how the commit() that settled last ended
  flushed,     \* per transaction: the cache commit() read and the statements it passed on
  openedAfter, \* per transaction: the transactions whose commit() had succeeded when it was made
  stagedAtCommit, \* per transaction: staged, as it was when its commit() succeeded
  commitOrder, \* the writable SQLTransactions the engine committed, in order
  setup,       \* open's creation callback: "due", "pending", "select", "create", "done" or "failed"
  entry,       \* the entry table exists in the database
  codec        \* a value on its way through JSON.stringify and JSON.parse

storeVars == <<db>>
jsVars == <<writeable, tx, cache, calls, ops>>
engineVars == <<sqltx, queue, table, work, commitOrder, faults>>
histVars == <<staged, lookups, commits, flushed, openedAfter, stagedAtCommit>>
openVars == <<setup, entry>>
vars == <<impl, storeVars, jsVars, engineVars, histVars, last, strays, openVars, codec>>

NotStaged == Atom("not staged")
\* tx: the transaction called (0: the store); value: what the call returned;
\* looked: a statement of the call reached the engine (for a call on the
\* store: a transaction was constructed); src: the transaction that wrote
\* the row a lookup read; closedAtCall: the call was made on a released
\* transaction (on a closed store)
NoLast ==
  [tx |-> 0, kind |-> "none", key |-> "", outcome |-> "ok", value |-> Undefined,
   looked |-> FALSE, src |-> 0, closedAtCall |-> FALSE]
NoFlush == [cache |-> <<>>, stmts |-> <<>>]
NoCodec == [pc |-> "none", v |-> Undefined, text |-> <<>>, back |-> Undefined]

\* the store and its transactions after the constructor, whatever the
\* database is like
InitStore ==
  /\ impl \in {"kvstore", "app"}
  /\ db = "open"
  /\ writeable = [t \in TxIds |-> FALSE]
  /\ tx = [t \in TxIds |-> "none"]
  /\ cache = [t \in TxIds |-> <<>>]
  /\ calls = {}
  /\ sqltx = [t \in TxIds |-> "none"]
  /\ queue = [t \in TxIds |-> <<>>]
  /\ ops = 0
  /\ faults = 0
  /\ strays = 0
  /\ last = NoLast
  /\ staged = [t \in TxIds |-> [k \in Keys |-> NotStaged]]
  /\ lookups = [t \in TxIds |-> [k \in Keys |-> 0]]
  /\ commits = [t \in TxIds |-> "none"]
  /\ flushed = [t \in TxIds |-> NoFlush]
  /\ openedAfter = [t \in TxIds |-> {}]
  /\ stagedAtCommit = [t \in TxIds |-> [k \in Keys |-> NotStaged]]
  /\ commitOrder = <<>>

\* the store on a database whose entry table an earlier open has created
Init ==
  /\ InitStore
  /\ setup = "done" /\ entry = TRUE
  /\ table \in InitialTables
  /\ work = table
  /\ codec = NoCodec

(* ------------------------------ the store ----------------------------- *)

Free == {t \in TxIds : tx[t] = "none"}
NewTx == CHOOSE t \in Free : \A u \in Free : t <= u

\* transact(db, writeable): db.transaction / db.readTransaction is asked for
\* a transaction; the promise settles in transactionCallback / transactionError
transact(t) == sqltx' = [sqltx EXCEPT ![t] = "pending"]

\* a transaction that is handed out released
WebSQLTransactionReleased(t, w) ==
  /\ transact(t)
  /\ tx' = [tx EXCEPT ![t] = "undefined"]
  /\ writeable' = [writeable EXCEPT ![t] = w]
  /\ openedAfter' = [openedAfter EXCEPT ![t] = {u \in TxIds : commits[u] = "ok"}]

\* new WebSQLTransaction(db, writeable), new WebSQLRead / WebSQLWrite(db)
WebSQLTransaction(t, w) ==
  /\ transact(t)
  /\ tx' = [tx EXCEPT ![t] = "promise"]
  /\ writeable' = [writeable EXCEPT ![t] = w]
  /\ openedAfter' = [openedAfter EXCEPT ![t] = {u \in TxIds : commits[u] = "ok"}]

\* a _getDB() without the check of _db
getDBUnchecked == TRUE

\* _getDB() returns the database (it throws when _db is undefined)
getDB == db # "undefined"

\* read(), write(), withRead(f), withWrite(f): _getDB() is evaluated before
\* the transaction is constructed, and f is called with the transaction
acquire(op, w, f) ==
  /\ IF getDB
     THEN Free # {} /\ WebSQLTransaction(NewTx, w) /\ UNCHANGED ops
     ELSE ops < MaxOps /\ ops' = ops + 1 /\ UNCHANGED <<sqltx, tx, writeable, openedAfter>>
  /\ last' = [NoLast EXCEPT !.kind = op,
                             !.outcome = IF getDB THEN "ok" ELSE "closed",
                             !.value = IF f /\ getDB THEN Atom("f called") ELSE Undefined,
                             !.looked = tx' # tx,
                             !.closedAtCall = db = "undefined"]
  /\ UNCHANGED <<impl, setup, entry, codec, db, cache, calls, queue, table, work, commitOrder, faults,
                 staged, lookups, commits, flushed, stagedAtCommit>>

read == acquire("read", FALSE, FALSE)
write == acquire("write", TRUE, FALSE)
withRead == acquire("withRead", FALSE, TRUE)
withWrite == acquire("withWrite", TRUE, TRUE)

\* a close() that also releases the transactions handed out
closeReleasing ==
  /\ ops < MaxOps
  /\ ops' = ops + 1
  /\ db' = "undefined"
  /\ tx' = [t \in TxIds |-> IF tx[t] = "promise" THEN "undefined" ELSE tx[t]]
  /\ last' = [NoLast EXCEPT !.kind = "close", !.closedAtCall = db = "undefined"]
  /\ UNCHANGED <<impl, setup, entry, codec, writeable, cache, calls, engineVars, histVars>>

close ==
  /\ ops < MaxOps
  /\ ops' = ops + 1
  /\ db' = "undefined"
  /\ last' = [NoLast EXCEPT !.kind = "close", !.closedAtCall = db = "undefined"]
  /\ UNCHANGED <<impl, setup, entry, codec, writeable, tx, cache, calls, engineVars, histVars>>

(* --------------------------- transactions ----------------------------- *)

Idle(t) == \A c \in calls : c.tx # t
CanCall(t) == tx[t] # "none" /\ ops < MaxOps
Bump(n) == IF n < 2 THEN n + 1 ELSE n

Result(kind, k, outcome, value, looked, src, closedAtCall) ==
  [tx |-> 0, kind |-> kind, key |-> k, outcome |-> outcome, value |-> value,
   looked |-> looked, src |-> src, closedAtCall |-> closedAtCall]
\* calls that return undefined where they should fail
SettleSwallowing(t, r) ==
  last' = [r EXCEPT !.tx = t, !.outcome = IF @ = "error" THEN "ok" ELSE @]

Settle(t, r) == last' = [r EXCEPT !.tx = t]
Quiet == last' = NoLast
Call(id, t, kind, k) ==
  [id |-> id, tx |-> t, kind |-> kind, key |-> k, pc |-> "awaitTx", left |-> 0,
   closedAtCall |-> tx[t] = "undefined"]
Statement(id, sql, k, text) == [cid |-> id, sql |-> sql, k |-> k, v |-> text]

\* a has() that compares with != null
DefinedNotNull(v) == IF v \notin {Undefined, Atom("null")} THEN JTrue ELSE JFalse

\* what has() makes of a value: value !== undefined
Defined(v) == IF v # Undefined THEN JTrue ELSE JFalse

\* a get() that lets only entries it has read itself answer
CacheHitClean(t, k) == CacheHas(cache[t], k) /\ ~CacheGet(cache[t], k).dirty

\* the cache entry that answers get(k) / has(k) without a lookup
CacheHit(t, k) == CacheHas(cache[t], k)

\* executeSQL(tx, sql, args) on an SQLTransaction: tx.executeSql queues the
\* statement while the transaction is active; on a transaction that has
\* ended it throws inside the async executor, so nothing is queued and
\* neither res nor rej is ever called
executeSQL(t, stmts) ==
  queue' = [queue EXCEPT ![t] = IF sqltx[t] = "active" THEN @ \o stmts ELSE @]

\* get / has from `await this._getTX()` on, the promise being settled: a
\* rejected promise fails the call, otherwise the lookup goes to executeSQL
lookup(c) ==
  IF sqltx[c.tx] = "failed"
  THEN /\ calls' = calls \ {c}
       /\ Settle(c.tx, Result(c.kind, c.key, "error", Undefined, FALSE, 0, c.closedAtCall))
       /\ UNCHANGED <<queue, lookups>>
  ELSE /\ executeSQL(c.tx, <<Statement(c.id,
                       IF impl = "app" /\ c.kind = "has" THEN "select1" ELSE "select",
                       c.key, <<>>)>>)
       /\ calls' = (calls \ {c}) \cup {[c EXCEPT !.pc = "awaitSql", !.left = 1]}
       /\ lookups' = [lookups EXCEPT ![c.tx][c.key] = Bump(@)]
       /\ Quiet

\* get(key) / has(key): an entry of the cache (of _pending) answers at once;
\* otherwise _getTX() throws on a released transaction, or the call awaits
\* the transaction.  The await of a settled promise resumes before any
\* callback of the engine runs, so the call goes on to its lookup in the
\* same step.
lookupCall(t, kind, k) ==
  /\ CanCall(t)
  /\ ops' = ops + 1
  /\ IF CacheHit(t, k)
     THEN /\ Settle(t, Result(kind, k, "ok",
                       IF kind = "has" THEN Defined(CacheGet(cache[t], k).value)
                       ELSE CacheGet(cache[t], k).value,
                       FALSE, 0, tx[t] = "undefined"))
          /\ UNCHANGED <<calls, queue, lookups>>
     ELSE IF tx[t] = "undefined"
     THEN /\ Settle(t, Result(kind, k, "closed", Undefined, FALSE, 0, TRUE))
          /\ UNCHANGED <<calls, queue, lookups>>
     ELSE IF sqltx[t] = "pending"
     THEN /\ calls' = calls \cup {Call(ops + 1, t, kind, k)}
          /\ Quiet
          /\ UNCHANGED <<queue, lookups>>
     ELSE lookup(Call(ops + 1, t, kind, k))
  /\ UNCHANGED <<impl, setup, entry, codec, storeVars, writeable, tx, cache, sqltx, table, work, commitOrder, faults,
                 staged, commits, flushed, openedAfter, stagedAtCommit>>

get(t, k) == lookupCall(t, "get", k)
has(t, k) == lookupCall(t, "has", k)

\* a get / has that awaited the transaction resumes once the promise settles
getLookup(c) ==
  /\ c \in calls /\ c.kind \in {"get", "has"} /\ c.pc = "awaitTx"
  /\ sqltx[c.tx] # "pending"
  /\ lookup(c)
  /\ UNCHANGED <<impl, setup, entry, codec, storeVars, writeable, tx, cache, ops, sqltx, table, work, commitOrder, faults,
                 staged, commits, flushed, openedAfter, stagedAtCommit>>

\* a put() that writes through to the backing table at once
putWriteThrough(t, k, v) ==
  /\ CanCall(t)
  /\ ops' = ops + 1
  /\ cache' = [cache EXCEPT ![t] = CacheSet(@, k, v, TRUE)]
  /\ staged' = [staged EXCEPT ![t][k] = v]
  /\ queue' = [queue EXCEPT ![t] = IF sqltx[t] = "active" /\ ~Throws(v)
                                   THEN Append(@, Statement(0, "upsert", k, JSONstringify(v)))
                                   ELSE @]
  /\ Settle(t, Result("put", k, "ok", Undefined, FALSE, 0, tx[t] = "undefined"))
  /\ UNCHANGED <<impl, setup, entry, codec, storeVars, writeable, tx, calls, sqltx, table, work, commitOrder, faults,
                 lookups, commits, flushed, openedAfter, stagedAtCommit>>

\* put(key, value): this._cache.set(key, { value, dirty: true })
put(t, k, v) ==
  /\ CanCall(t)
  /\ ops' = ops + 1
  /\ cache' = [cache EXCEPT ![t] = CacheSet(@, k, v, TRUE)]
  /\ staged' = [staged EXCEPT ![t][k] = v]
  /\ Settle(t, Result("put", k, "ok", Undefined, FALSE, 0, tx[t] = "undefined"))
  /\ UNCHANGED <<impl, setup, entry, codec, storeVars, writeable, tx, calls, engineVars,
                 lookups, commits, flushed, openedAfter, stagedAtCommit>>

\* a del() that also drops what the cache holds for the other keys
delForgetting(t, k) ==
  /\ CanCall(t)
  /\ ops' = ops + 1
  /\ cache' = [cache EXCEPT ![t] = <<[key |-> k, value |-> Undefined, dirty |-> TRUE]>>]
  /\ staged' = [staged EXCEPT ![t][k] = Undefined]
  /\ Settle(t, Result("del", k, "ok", Undefined, FALSE, 0, tx[t] = "undefined"))
  /\ UNCHANGED <<impl, setup, entry, codec, storeVars, writeable, tx, calls, engineVars,
                 lookups, commits, flushed, openedAfter, stagedAtCommit>>

\* del(key): this._cache.set(key, { value: undefined, dirty: true })
del(t, k) ==
  /\ CanCall(t)
  /\ ops' = ops + 1
  /\ cache' = [cache EXCEPT ![t] = CacheSet(@, k, Undefined, TRUE)]
  /\ staged' = [staged EXCEPT ![t][k] = Undefined]
  /\ Settle(t, Result("del", k, "ok", Undefined, FALSE, 0, tx[t] = "undefined"))
  /\ UNCHANGED <<impl, setup, entry, codec, storeVars, writeable, tx, calls, engineVars,
                 lookups, commits, flushed, openedAfter, stagedAtCommit>>

\* release(): this._tx = undefined
release(t) ==
  /\ CanCall(t)
  /\ ops' = ops + 1
  /\ tx' = [tx EXCEPT ![t] = "undefined"]
  /\ Settle(t, Result("release", "", "ok", Undefined, FALSE, 0, tx[t] = "undefined"))
  /\ UNCHANGED <<impl, setup, entry, codec, storeVars, writeable, cache, calls, engineVars, histVars>>

\* closed: this._tx === undefined
closed(t) == tx[t] = "undefined"

\* commits[t] once commit() is awaiting: how an earlier commit() ended stays on record
Called(was) == IF was = "none" THEN "called" ELSE was

\* a commit() that flushes every entry of the cache
FlushAll(c) == c

\* the entries commit() flushes
Flushable(c) == SelectDirty(c)

RECURSIVE FlushStatements(_, _)
\* the statement of each entry, in order; an entry whose value
\* JSON.stringify throws on reaches no executeSQL
FlushStatements(id, es) ==
  IF es = <<>> THEN <<>>
  ELSE LET e == Head(es)
       IN (IF e.value = Undefined THEN <<Statement(id, "delete", e.key, <<>>)>>
           ELSE IF Throws(e.value) THEN <<>>
           ELSE <<Statement(id, "upsert", e.key, JSONstringify(e.value))>>)
          \o FlushStatements(id, Tail(es))

\* commit() from `await this._getTX()` on, the promise being settled: every
\* flushed entry's async callback runs up to its executeSQL, then Promise.all
\* awaits them; it rejects with the first rejection and resolves at once
\* over no entries
flush(c) ==
  IF sqltx[c.tx] = "failed"
  THEN /\ calls' = calls \ {c}
       /\ Settle(c.tx, Result("commit", "", "error", Undefined, FALSE, 0, c.closedAtCall))
       /\ commits' = [commits EXCEPT ![c.tx] = "failed"]
       /\ UNCHANGED <<queue, flushed, stagedAtCommit>>
  ELSE LET es == Flushable(cache[c.tx])
           stmts == FlushStatements(c.id, es)
       IN /\ executeSQL(c.tx, stmts)
          /\ flushed' = [flushed EXCEPT ![c.tx] = [cache |-> cache[c.tx], stmts |-> stmts]]
          /\ IF \E i \in 1..Len(es) : Throws(es[i].value)
             THEN /\ calls' = calls \ {c}
                  /\ Settle(c.tx, Result("commit", "", "error", Undefined, FALSE, 0,
                                         c.closedAtCall))
                  /\ commits' = [commits EXCEPT ![c.tx] = "failed"]
                  /\ UNCHANGED stagedAtCommit
             ELSE IF es = <<>>
             THEN /\ calls' = calls \ {c}
                  /\ Settle(c.tx, Result("commit", "", "ok", Undefined, FALSE, 0,
                                         c.closedAtCall))
                  /\ commits' = [commits EXCEPT ![c.tx] = "ok"]
                  /\ stagedAtCommit' = [stagedAtCommit EXCEPT ![c.tx] = staged[c.tx]]
             ELSE /\ calls' = (calls \ {c}) \cup
                                {[c EXCEPT !.pc = "awaitSql", !.left = Len(stmts)]}
                  /\ commits' = [commits EXCEPT ![c.tx] = Called(@)]
                  /\ Quiet
                  /\ UNCHANGED stagedAtCommit

\* commit(): _getTX() throws on a released transaction; otherwise the call
\* awaits the transaction and, the promise being settled, goes on in the
\* same step
commit(t) ==
  /\ CanCall(t)
  /\ ops' = ops + 1
  /\ IF tx[t] = "undefined"
     THEN /\ Settle(t, Result("commit", "", "closed", Undefined, FALSE, 0, TRUE))
          /\ commits' = [commits EXCEPT ![t] = "failed"]
          /\ UNCHANGED <<calls, queue, flushed, stagedAtCommit>>
     ELSE IF sqltx[t] = "pending"
     THEN /\ calls' = calls \cup {Call(ops + 1, t, "commit", "")}
          /\ commits' = [commits EXCEPT ![t] = Called(@)]
          /\ Quiet
          /\ UNCHANGED <<queue, flushed, stagedAtCommit>>
     ELSE flush(Call(ops + 1, t, "commit", ""))
  /\ UNCHANGED <<impl, setup, entry, codec, storeVars, writeable, tx, cache, sqltx, table, work, commitOrder, faults,
                 staged, lookups, openedAfter>>

\* a commit() that awaited the transaction resumes once the promise settles
commitFlush(c) ==
  /\ c \in calls /\ c.kind = "commit" /\ c.pc = "awaitTx"
  /\ sqltx[c.tx] # "pending"
  /\ flush(c)
  /\ UNCHANGED <<impl, setup, entry, codec, storeVars, writeable, tx, cache, ops, sqltx, table, work, commitOrder, faults,
                 staged, lookups, openedAfter>>

(* ----------------------------- the engine ----------------------------- *)

\* transact's first callback, (tx) => res(tx): the engine starts the
\* transaction.  A writable transaction runs alone; read transactions run
\* together, and never beside a writable one.
Startable(t) ==
  /\ sqltx[t] = "pending"
  /\ setup \notin {"pending", "select", "create"}
  /\ \A u \in TxIds \ {t} : sqltx[u] = "active" => ~writeable[t] /\ ~writeable[u]

transactionCallback(t) ==
  /\ Startable(t)
  /\ sqltx' = [sqltx EXCEPT ![t] = "active"]
  /\ Quiet
  /\ UNCHANGED <<impl, setup, entry, codec, storeVars, jsVars, queue, table, work, commitOrder, faults, histVars>>

\* transact's second callback, (err) => rej(err): the transaction could not
\* be started
transactionError(t) ==
  /\ sqltx[t] = "pending"
  /\ faults < MaxFaults
  /\ faults' = faults + 1
  /\ sqltx' = [sqltx EXCEPT ![t] = "failed"]
  /\ Quiet
  /\ UNCHANGED <<impl, setup, entry, codec, storeVars, jsVars, queue, table, work, commitOrder, histVars>>

\* the rows a statement of t sees
View(t) == IF writeable[t] THEN work ELSE table

\* the value get() makes of the rows of `select v from entry where k = ?`
RowValue(row) == IF row.present THEN JSONparse(row.v) ELSE Undefined

\* what the awaiting get / has returns once its lookup has run
LookupResult(c, row) ==
  IF c.kind = "get" THEN RowValue(row)
  ELSE IF impl = "app" THEN (IF row.present THEN JTrue ELSE JFalse)
  ELSE Defined(RowValue(row))

\* get() after `await executeSQL(...)`: this._cache.set(key, { value, dirty: false });
\* WebSQLRead of app.tsx keeps no cache
CacheAfterLookup(c, row) ==
  IF impl = "kvstore" THEN CacheSet(cache[c.tx], c.key, RowValue(row), FALSE)
  ELSE cache[c.tx]

\* the engine can run statement s of t: the entry table exists, and a
\* transaction made by db.readTransaction only reads
Runs(t, s) == entry /\ (s.sql \in {"delete", "upsert"} => writeable[t])

\* executeSQL's success callback, (_, result) => res(result), for the
\* statement at the head of the queue, and the continuation of the call
\* that awaits it
statementCallback(t) ==
  /\ sqltx[t] = "active" /\ queue[t] # <<>>
  /\ Runs(t, Head(queue[t]))
  /\ LET s == Head(queue[t])
         row == View(t)[s.k]
         waiting == {c \in calls : c.id = s.cid}
     IN /\ queue' = [queue EXCEPT ![t] = Tail(@)]
        /\ work' = IF s.sql = "delete" THEN [work EXCEPT ![s.k] = NoRow(t)]
                   ELSE IF s.sql = "upsert" THEN [work EXCEPT ![s.k] = Row(s.v, t)]
                   ELSE work
        /\ IF waiting = {}
           THEN Quiet /\ UNCHANGED <<calls, cache, commits, stagedAtCommit>>
           ELSE LET c == CHOOSE c \in waiting : TRUE
                IN IF c.kind = "commit"
                   THEN /\ UNCHANGED cache
                        /\ IF c.left > 1
                           THEN /\ calls' = (calls \ {c}) \cup {[c EXCEPT !.left = @ - 1]}
                                /\ Quiet
                                /\ UNCHANGED <<commits, stagedAtCommit>>
                           ELSE /\ calls' = calls \ {c}
                                /\ Settle(t, Result("commit", "", "ok", Undefined, FALSE, 0,
                                                    c.closedAtCall))
                                /\ commits' = [commits EXCEPT ![t] = "ok"]
                                /\ stagedAtCommit' = [stagedAtCommit EXCEPT ![t] = staged[t]]
                   ELSE /\ calls' = calls \ {c}
                        /\ cache' = [cache EXCEPT ![t] = CacheAfterLookup(c, row)]
                        /\ Settle(t, Result(c.kind, c.key, "ok", LookupResult(c, row), TRUE,
                                            row.by, c.closedAtCall))
                        /\ UNCHANGED <<commits, stagedAtCommit>>
  /\ UNCHANGED <<impl, setup, entry, codec, storeVars, writeable, tx, ops, sqltx, table, commitOrder, faults,
                 staged, lookups, flushed, openedAfter>>

\* executeSQL's error callback for the statement at the head of the queue:
\* rej(err), and `return true` has the engine roll the transaction back and
\* drop the statements still queued
statementError(t) ==
  /\ sqltx[t] = "active" /\ queue[t] # <<>>
  /\ IF Runs(t, Head(queue[t]))
     THEN faults < MaxFaults /\ faults' = faults + 1
     ELSE UNCHANGED faults
  /\ LET s == Head(queue[t])
         waiting == {c \in calls : c.id = s.cid}
     IN IF waiting = {}
        THEN Quiet /\ UNCHANGED <<calls, commits>>
        ELSE LET c == CHOOSE c \in waiting : TRUE
             IN /\ calls' = calls \ {c}
                /\ Settle(t, Result(c.kind, c.key, "error", Undefined, c.kind # "commit", 0,
                                    c.closedAtCall))
                /\ commits' = IF c.kind = "commit" THEN [commits EXCEPT ![t] = "failed"]
                              ELSE commits
  /\ sqltx' = [sqltx EXCEPT ![t] = "rolledback"]
  /\ queue' = [queue EXCEPT ![t] = <<>>]
  /\ work' = table
  /\ UNCHANGED <<impl, setup, entry, codec, storeVars, writeable, tx, cache, ops, table, commitOrder,
                 staged, lookups, flushed, openedAfter, stagedAtCommit>>

\* an active transaction whose statement queue is empty ends: the engine
\* commits it
transactionEnd(t) ==
  /\ sqltx[t] = "active" /\ queue[t] = <<>>
  /\ sqltx' = [sqltx EXCEPT ![t] = "committed"]
  /\ table' = IF writeable[t] THEN work ELSE table
  /\ commitOrder' = IF writeable[t] THEN Append(commitOrder, t) ELSE commitOrder
  /\ Quiet
  /\ UNCHANGED <<impl, setup, entry, codec, storeVars, jsVars, queue, work, faults, histVars>>

(* -------------------- values on their way to a row -------------------- *)

CodecFrame ==
  UNCHANGED <<impl, storeVars, jsVars, engineVars, histVars, last, strays, openVars>>

\* commit(): JSON.stringify(value), the text of the upsert
stringifyValue ==
  /\ codec.pc = "value" /\ ~Throws(codec.v)
  /\ codec' = [codec EXCEPT !.pc = "text", !.text = JSONstringify(codec.v)]
  /\ CodecFrame

\* get(): JSON.parse(res.rows.item(0).v), the value of the row's text
parseText ==
  /\ codec.pc = "text"
  /\ codec' = [codec EXCEPT !.pc = "back", !.back = JSONparse(codec.text)]
  /\ CodecFrame

\* a value of the JSON value space about to be committed
InitJSON ==
  /\ InitStore
  /\ setup = "done" /\ entry = TRUE
  /\ table \in InitialTables
  /\ work = table
  /\ codec \in {[NoCodec EXCEPT !.pc = "value", !.v = v] : v \in JSONValues}

(* ----------------------- open: the new database ----------------------- *)

\* what the steps of open's creation callback leave alone
OpenFrame ==
  /\ Quiet
  /\ UNCHANGED <<impl, codec, storeVars, jsVars, sqltx, queue, table, work, commitOrder,
                 histVars, strays>>

\* the engine calls the creation callback of openDatabase, which runs up to
\* `await transact(db, true)`; the constructor has returned the store by
\* then or not, as the engine has it
openCallback ==
  /\ setup = "due"
  /\ setup' = "pending"
  /\ UNCHANGED <<entry, faults>>
  /\ OpenFrame

\* the writable transaction of the callback starts, alone as every writable
\* transaction, and the callback goes on to the select on sqlite_master
openTransaction ==
  /\ setup = "pending"
  /\ \A t \in TxIds : sqltx[t] # "active"
  /\ setup' = "select"
  /\ UNCHANGED <<entry, faults>>
  /\ OpenFrame

\* the transaction cannot be started: transact rejects, the async callback
\* rejects, and nothing awaits it
openTransactionError ==
  /\ setup = "pending"
  /\ faults < MaxFaults
  /\ faults' = faults + 1
  /\ setup' = "failed"
  /\ UNCHANGED entry
  /\ OpenFrame

\* the select is answered: `create table entry` follows when it found no
\* row, otherwise the callback is over and the transaction ends
openSelected ==
  /\ setup = "select"
  /\ setup' = IF entry THEN "done" ELSE "create"
  /\ UNCHANGED <<entry, faults>>
  /\ OpenFrame

\* `create table entry` is answered and the transaction ends
openCreated ==
  /\ setup = "create"
  /\ setup' = "done"
  /\ entry' = TRUE
  /\ UNCHANGED faults
  /\ OpenFrame

\* the engine rejects the select or the create: executeSQL rejects, the
\* transaction is rolled back, the async callback rejects, and nothing
\* awaits it
openStatementError ==
  /\ setup \in {"select", "create"}
  /\ faults < MaxFaults
  /\ faults' = faults + 1
  /\ setup' = "failed"
  /\ UNCHANGED entry
  /\ OpenFrame

\* the store on a database that openDatabase has just created
InitOpen ==
  /\ InitStore
  /\ setup = "due" /\ entry = FALSE
  /\ table = [k \in Keys |-> NoRow(0)]
  /\ work = table
  /\ codec = NoCodec

(* --------------------------- specifications --------------------------- *)

\* The owner of a transaction keeps to the rules of its interface: it
\* sequences its calls, makes none after commit() or release(), and calls
\* put, del and commit only on what write() / withWrite() gave it.
Typed(t) == writeable[t]
Disciplined(t) == Idle(t) /\ tx[t] = "promise" /\ commits[t] = "none"
\* The engine answers db.transaction / db.readTransaction before the
\* caller's next call whenever the transaction can start: calls made in
\* between would find the promise pending and wait for that answer, so they
\* commute with it.
Answered == \A t \in TxIds : ~Startable(t)
Owner(t) == Answered /\ Disciplined(t) /\ UNCHANGED strays
\* a call that overlaps another one, or is made after commit() or release()
Stray(t) == Answered /\ ~Disciplined(t) /\ strays < MaxStray /\ strays' = strays + 1

Next ==
  \/ Answered /\ read /\ UNCHANGED strays
  \/ Answered /\ write /\ UNCHANGED strays
  \/ Answered /\ withRead /\ UNCHANGED strays
  \/ Answered /\ withWrite /\ UNCHANGED strays
  \/ Answered /\ close /\ UNCHANGED strays
  \/ \E t \in TxIds, k \in Keys : Owner(t) /\ get(t, k)
  \/ \E t \in TxIds, k \in Keys : Owner(t) /\ has(t, k)
  \/ \E t \in TxIds, k \in Keys, v \in PutValues : Owner(t) /\ Typed(t) /\ put(t, k, v)
  \/ \E t \in TxIds, k \in Keys : Owner(t) /\ Typed(t) /\ del(t, k)
  \/ \E t \in TxIds : Owner(t) /\ Typed(t) /\ commit(t)
  \/ \E t \in TxIds : Answered /\ Idle(t) /\ release(t) /\ UNCHANGED strays
  \/ \E c \in calls : getLookup(c) /\ UNCHANGED strays
  \/ \E c \in calls : commitFlush(c) /\ UNCHANGED strays
  \/ \E t \in TxIds : transactionCallback(t) /\ UNCHANGED strays
  \/ \E t \in TxIds : transactionError(t) /\ UNCHANGED strays
  \/ \E t \in TxIds : statementCallback(t) /\ UNCHANGED strays
  \/ \E t \in TxIds : statementError(t) /\ UNCHANGED strays
  \/ \E t \in TxIds : transactionEnd(t) /\ UNCHANGED strays

Spec == Init /\ [][Next]_vars

\* Any caller: some calls overlap, or are made on a released or committed
\* transaction.
NextAny ==
  \/ Next
  \/ \E t \in TxIds, k \in Keys : Stray(t) /\ get(t, k)
  \/ \E t \in TxIds, k \in Keys : Stray(t) /\ has(t, k)
  \/ \E t \in TxIds, k \in Keys, v \in PutValues : Stray(t) /\ Typed(t) /\ put(t, k, v)
  \/ \E t \in TxIds, k \in Keys : Stray(t) /\ Typed(t) /\ del(t, k)
  \/ \E t \in TxIds : Stray(t) /\ Typed(t) /\ commit(t)
  \/ \E t \in TxIds : ~Idle(t) /\ Stray(t) /\ release(t)

SpecAny == Init /\ [][NextAny]_vars

\* The store from its construction on a new database: the creation callback
\* beside the first transactions of a caller that keeps to the interface.
NextOpen ==
  \/ openCallback
  \/ openTransaction
  \/ openTransactionError
  \/ openSelected
  \/ openCreated
  \/ openStatementError
  \/ Answered /\ read /\ UNCHANGED strays
  \/ Answered /\ write /\ UNCHANGED strays
  \/ \E t \in TxIds, k \in Keys : Owner(t) /\ get(t, k)
  \/ \E t \in TxIds, k \in Keys, v \in PutValues : Owner(t) /\ Typed(t) /\ put(t, k, v)
  \/ \E t \in TxIds : Owner(t) /\ Typed(t) /\ commit(t)
  \/ \E c \in calls : getLookup(c) /\ UNCHANGED strays
  \/ \E c \in calls : commitFlush(c) /\ UNCHANGED strays
  \/ \E t \in TxIds : transactionCallback(t) /\ UNCHANGED strays
  \/ \E t \in TxIds : transactionError(t) /\ UNCHANGED strays
  \/ \E t \in TxIds : statementCallback(t) /\ UNCHANGED strays
  \/ \E t \in TxIds : statementError(t) /\ UNCHANGED strays
  \/ \E t \in TxIds : transactionEnd(t) /\ UNCHANGED strays

SpecOpen == InitOpen /\ [][NextOpen]_vars

\* A caller that goes past the type of what read() returned: the object is
\* a WebSQLTransaction, with put, del and commit (websql-kvstore.ts only;
\* read() of app.tsx returns a WebSQLRead, which has none of them).
Untyped(t) ==
  /\ impl = "kvstore"
  /\ Answered /\ Disciplined(t) /\ ~Typed(t)
  /\ strays < MaxUntyped /\ strays' = strays + 1

NextUntyped ==
  \/ Next
  \/ \E t \in TxIds, k \in Keys, v \in PutValues : Untyped(t) /\ put(t, k, v)
  \/ \E t \in TxIds, k \in Keys : Untyped(t) /\ del(t, k)
  \/ \E t \in TxIds : Untyped(t) /\ commit(t)

SpecUntyped == Init /\ [][NextUntyped]_vars

\* A value through commit()'s encoding and get()'s decoding.
NextJSON == stringifyValue \/ parseText

SpecJSON == InitJSON /\ [][NextJSON]_vars

(* ------------------------------- claims ------------------------------- *)

ReadKinds == {"get", "has"}
StoreCalls == {"read", "write", "withRead", "withWrite"}
\* what get / has returns for a key whose value is v
Answer(kind, v) == IF kind = "has" THEN Defined(v) ELSE v
\* the engine committed writable transaction u after writable transaction t
LaterWriter(u, t) ==
  \E i, j \in 1..Len(commitOrder) : i < j /\ commitOrder[i] = t /\ commitOrder[j] = u

\* C1 (read-your-writes): when the calls on a transaction are made one after
\* another, a get(k) / has(k) on a key the transaction has staged settles
\* with the value of the last put(k, v) / del(k) (undefined, has false, after
\* del), before commit, whatever the table holds for k, and no lookup for k
\* is issued.
ReadYourWrites ==
  (last.tx # 0 /\ last.kind \in ReadKinds /\ staged[last.tx][last.key] # NotStaged)
    => /\ last.outcome = "ok"
       /\ last.value = Answer(last.kind, staged[last.tx][last.key])
       /\ ~last.looked

\* C1: a get returns the staged value of a key whose row in the table holds
\* another value, and a has answers false for a deleted key that has a row
ReadYourWritesSeen ==
  /\ last.tx # 0 /\ last.kind \in ReadKinds /\ last.outcome = "ok"
  /\ staged[last.tx][last.key] # NotStaged
  /\ commits[last.tx] = "none"
  /\ table[last.key].present
  /\ RowValue(table[last.key]) # staged[last.tx][last.key]
  /\ last.value = Answer(last.kind, staged[last.tx][last.key])

\* C2 (isolation): whenever a get / has of one transaction reads a row that
\* a statement of another transaction wrote or deleted, a commit() of that
\* other transaction has settled; this for any interleaving of the calls on
\* the transactions, overlapping calls included.
Isolation ==
  (last.tx # 0 /\ last.kind \in ReadKinds /\ last.looked /\ last.src \notin {0, last.tx})
    => commits[last.src] \in {"ok", "failed"}

\* C2: a get of one transaction reads a key for which another open
\* transaction holds a staged value that is not committed, and reads the row
\* from before
IsolationSeen ==
  /\ last.tx # 0 /\ last.kind \in ReadKinds /\ last.looked /\ last.outcome = "ok"
  /\ last.src = 0
  /\ \E t \in TxIds \ {last.tx} :
       /\ tx[t] = "promise" /\ tx[last.tx] = "promise"
       /\ staged[t][last.key] \notin {NotStaged, RowValue(table[last.key])}
       /\ commits[t] \in {"none", "called"}

\* C3 (commit visibility, last write wins): when the rules of the interface
\* are kept, once commit() of a writable transaction t has succeeded and the
\* engine has ended t, the table holds for every key t staged the value of
\* t's last put / del, written by t, and t wrote no other row; and a
\* lookup of a transaction made after t's commit() succeeded returns t's last
\* staged value for a key t staged unless a later writer replaced it, and a
\* row t did not write for a key t did not stage.
CommitVisible ==
  /\ \A t \in TxIds :
       (/\ commits[t] = "ok" /\ sqltx[t] = "committed"
        /\ commitOrder # <<>> /\ commitOrder[Len(commitOrder)] = t)
         => \A k \in Keys :
              IF stagedAtCommit[t][k] # NotStaged
              THEN table[k].by = t /\ RowValue(table[k]) = stagedAtCommit[t][k]
              ELSE table[k].by # t
  /\ (last.tx # 0 /\ last.kind \in ReadKinds /\ last.looked /\ last.outcome = "ok")
       => \A t \in openedAfter[last.tx] \ {last.tx} :
            IF stagedAtCommit[t][last.key] # NotStaged
            THEN \/ /\ last.src = t
                    /\ last.value = Answer(last.kind, stagedAtCommit[t][last.key])
                 \/ LaterWriter(last.src, t)
            ELSE last.src # t

\* C3: a read transaction made after a commit() succeeded reads a key that
\* the committed transaction staged and gets the staged value
CommitVisibleSeen ==
  /\ last.tx # 0 /\ last.kind \in ReadKinds /\ last.looked /\ last.outcome = "ok"
  /\ ~writeable[last.tx]
  /\ last.src \in openedAfter[last.tx]
  /\ stagedAtCommit[last.src][last.key] # NotStaged
  /\ last.value = Answer(last.kind, stagedAtCommit[last.src][last.key])

\* C4 (atomic commit): the keys whose committed row a transaction wrote are
\* none when its commit() failed, and never a strict non-empty subset of the
\* keys it staged.
AtomicCommit ==
  \A t \in TxIds :
    LET mine == {k \in Keys : table[k].by = t}
        mutations == {k \in Keys : staged[t][k] # NotStaged}
    IN /\ commits[t] = "failed" => mine = {}
       /\ mine # {} => mine = mutations

\* C5 (released transaction): a has, get, put, del or commit called on a
\* transaction after release() fails with the closed error, whatever the
\* cache holds.
ClosedAfterRelease ==
  (last.tx # 0 /\ last.kind \in {"has", "get", "put", "del", "commit"} /\ last.closedAtCall)
    => last.outcome = "closed"

\* C6 (terminal state after commit): once commit() of a transaction has
\* succeeded, closed is true on it.
ClosedAfterCommit == \A t \in TxIds : commits[t] = "ok" => closed(t)

\* the dirty entries of c that have a statement: a tombstone, or a value
\* that has a JSON text
Encodable(c) ==
  SelectSeq(c, LAMBDA e : e.dirty /\ (e.value = Undefined \/ ~Throws(e.value)))
\* statement s is the one commit() issues for entry e
StatementOf(s, e) ==
  /\ s.k = e.key
  /\ IF e.value = Undefined THEN s.sql = "delete"
     ELSE s.sql = "upsert" /\ JSONparse(s.v) = e.value

\* C7 as stated (dirty-only flush): the statements a commit() issued are
\* exactly one per dirty entry of the cache it read, in order.
DirtyOnlyFlush ==
  \A t \in TxIds :
    LET dirty == SelectSeq(flushed[t].cache, LAMBDA e : e.dirty)
    IN /\ Len(flushed[t].stmts) = Len(dirty)
       /\ \A i \in 1..Len(dirty) : StatementOf(flushed[t].stmts[i], dirty[i])

\* C7 amended: a commit() that has got its SQLTransaction issues exactly one
\* statement per dirty entry that is a tombstone (a delete) or whose value
\* has a JSON text (an upsert of that text), none for a dirty entry whose
\* value has no JSON text, none for an entry that was only read; over zero
\* dirty entries it issues no statement, and a transaction that issued none
\* has written no row of the table.
DirtyOnlyFlushEncodable ==
  \A t \in TxIds :
    LET sent == Encodable(flushed[t].cache)
    IN /\ Len(flushed[t].stmts) = Len(sent)
       /\ \A i \in 1..Len(sent) : StatementOf(flushed[t].stmts[i], sent[i])
       /\ (\A i \in 1..Len(flushed[t].cache) : ~flushed[t].cache[i].dirty)
            => flushed[t].stmts = <<>>
       /\ flushed[t].stmts = <<>>
            => \A k \in Keys : table[k].by # t /\ work[k].by # t

\* C7: a commit() read a cache holding an entry that was only read and a
\* dirty one, and issued the one statement of the dirty entry
DirtyOnlyFlushSeen ==
  \E t \in TxIds :
    /\ \E i \in 1..Len(flushed[t].cache) : ~flushed[t].cache[i].dirty
    /\ \E i \in 1..Len(flushed[t].cache) : flushed[t].cache[i].dirty
    /\ Len(flushed[t].stmts) = 1

\* C8 (closed store): closed becomes true by close() and by nothing else,
\* close() never fails and leaves closed true however often it is called,
\* and a read(), write(), withRead(f) or withWrite(f) fails with the closed
\* error, constructs no transaction and does not call f exactly when close()
\* was called before it.
ClosedStore ==
  [][/\ (db' = "undefined") <=> (db = "undefined" \/ last'.kind = "close")
     /\ last'.kind = "close" => last'.outcome = "ok" /\ db' = "undefined"
     /\ (last'.tx = 0 /\ last'.kind \in StoreCalls)
          => IF db = "undefined"
             THEN /\ last'.outcome = "closed" /\ last'.value = Undefined
                  /\ ~last'.looked /\ tx' = tx /\ sqltx' = sqltx
             ELSE last'.outcome = "ok" /\ last'.looked]_vars

\* C8: withRead(f) was refused on a closed store
ClosedStoreSeen ==
  /\ db = "undefined"
  /\ last.tx = 0 /\ last.kind = "withRead" /\ last.outcome = "closed"

\* C9 (cache authority): a transaction issues at most one lookup per key.
CacheAuthority == \A t \in TxIds, k \in Keys : lookups[t][k] <= 1

\* C10 (every call settles): a call that awaits the answer to its statements
\* has that many statements in the queue of an active SQLTransaction, so
\* that the engine's callbacks will settle it.
EveryCallSettles ==
  \A c \in calls :
    c.pc = "awaitSql"
      => /\ sqltx[c.tx] = "active"
         /\ Cardinality({i \in 1..Len(queue[c.tx]) : queue[c.tx][i].cid = c.id}) >= c.left

\* C11 (schema failure is reported): once the check or the creation of the
\* entry table has failed, the store is closed.
SchemaFailureReported == setup = "failed" => db = "undefined"

\* C17 (schema ready before use): whenever the engine is to run a statement
\* of a transaction the store handed out, the entry table exists.
SchemaReady ==
  \A t \in TxIds : (sqltx[t] = "active" /\ queue[t] # <<>>) => entry

\* C12 (close leaves transactions alone): a close() changes no field of any
\* transaction, no cache, no awaiting call, no queue of statements and no
\* row; and on a closed store a call on a transaction is refused as closed
\* only if that transaction was released, and a commit() that succeeded has
\* put the staged values into the table once the engine has ended the
\* transaction.
CloseKeepsTransactions ==
  [][/\ last'.kind = "close"
          => UNCHANGED <<tx, writeable, cache, calls, sqltx, queue, table, work,
                         staged, lookups, commits, flushed>>
     /\ db' = "undefined"
          => /\ (last'.tx # 0 /\ last'.outcome = "closed") => last'.closedAtCall
             /\ \A t \in TxIds :
                  (/\ commits'[t] = "ok" /\ sqltx'[t] = "committed"
                   /\ commitOrder' # <<>> /\ commitOrder'[Len(commitOrder')] = t)
                    => \A k \in Keys :
                         stagedAtCommit'[t][k] # NotStaged
                           => /\ table'[k].by = t
                              /\ RowValue(table'[k]) = stagedAtCommit'[t][k]]_vars

\* C12: on a closed store, the commit() of a transaction with a staged entry
\* has succeeded
CloseKeepsTransactionsSeen ==
  /\ db = "undefined"
  /\ last.tx # 0 /\ last.kind = "commit" /\ last.outcome = "ok"
  /\ ~closed(last.tx)
  /\ \E k \in Keys : stagedAtCommit[last.tx][k] # NotStaged

\* C13 (put and del do no I/O): a put(k, v) or del(k) passes no statement to
\* the engine and changes no row; afterwards the cache of its transaction
\* holds for k the value (undefined for del) with dirty set, holds for every
\* other key what it held before, and the caches of the other transactions
\* are as before.
StagingOnly ==
  [][(last'.tx # 0 /\ last'.kind \in {"put", "del"})
       => LET t == last'.tx
              k == last'.key
          IN /\ UNCHANGED <<queue, table, work, sqltx, lookups, flushed, calls>>
             /\ last'.outcome = "ok"
             /\ CacheHas(cache'[t], k)
             /\ CacheGet(cache'[t], k).dirty
             /\ CacheGet(cache'[t], k).value = staged'[t][k]
             /\ last'.kind = "del" => staged'[t][k] = Undefined
             /\ last'.kind = "put" => staged'[t][k] \in PutValues
             /\ \A j \in Keys \ {k} :
                  /\ CacheHas(cache'[t], j) = CacheHas(cache[t], j)
                  /\ CacheHas(cache[t], j) => CacheGet(cache'[t], j) = CacheGet(cache[t], j)
             /\ \A u \in TxIds \ {t} : cache'[u] = cache[u]]_vars

\* C13: a put or del has settled in a transaction whose cache holds an
\* entry for another key that was only read
StagingOnlySeen ==
  /\ last.tx # 0 /\ last.kind \in {"put", "del"}
  /\ \E j \in Keys \ {last.key} :
       CacheHas(cache[last.tx], j) /\ ~CacheGet(cache[last.tx], j).dirty

ReadNow(t, kind, k) ==
  IF CacheHit(t, k) THEN (IF kind = "has" THEN Defined(CacheGet(cache[t], k).value)
                          ELSE CacheGet(cache[t], k).value)
  ELSE LookupResult([kind |-> kind], View(t)[k])

\* C15 (has / get agreement): in every state, for every transaction and
\* key, has(k) is true exactly when get(k) at the same point is not
\* undefined, a row holding JSON null being present; has false and get
\* undefined for a key with no row and no entry in the cache; and a has or
\* get that has just returned has returned that.
HasGetAgree ==
  /\ \A t \in TxIds, k \in Keys :
       /\ ReadNow(t, "has", k) = IF ReadNow(t, "get", k) # Undefined THEN JTrue ELSE JFalse
       /\ (~CacheHit(t, k) /\ ~View(t)[k].present)
            => ReadNow(t, "has", k) = JFalse /\ ReadNow(t, "get", k) = Undefined
       /\ (~CacheHit(t, k) /\ View(t)[k].present) => ReadNow(t, "has", k) = JTrue
  /\ (last.tx # 0 /\ last.kind \in ReadKinds /\ last.outcome = "ok")
       => last.value = ReadNow(last.tx, last.kind, last.key)

\* C15: has(k) has returned true for a key whose row holds JSON null
HasGetAgreeSeen ==
  /\ last.tx # 0 /\ last.kind = "has" /\ last.outcome = "ok" /\ last.looked
  /\ last.value = JTrue
  /\ View(last.tx)[last.key].present
  /\ JSONparse(View(last.tx)[last.key].v) = Atom("null")

\* C16 (value round trip): for every value of the JSON value space, the
\* value JSON.parse makes of the text JSON.stringify wrote for it equals it.
RoundTrip == codec.pc = "back" => codec.back = codec.v

\* C16: an object holding an array has come back from its text
RoundTripSeen ==
  /\ codec.pc = "back" /\ codec.back = codec.v
  /\ codec.v.tag = "{" /\ Len(codec.v.items) = 1
  /\ codec.v.items[1].items[2].tag = "[" /\ Len(codec.v.items[1].items[2].items) = MaxLen
  /\ Len(codec.text) > 7

\* C18 (a staged write is not lost to a pending read): until commit() is
\* called, the cache holds for every key the transaction staged the last
\* staged value with dirty set, whatever lookups of the transaction have
\* completed meanwhile.
StagedStaysDirty ==
  \A t \in TxIds, k \in Keys :
    (staged[t][k] # NotStaged /\ commits[t] = "none")
      => /\ CacheHas(cache[t], k)
         /\ CacheGet(cache[t], k).dirty
         /\ CacheGet(cache[t], k).value = staged[t][k]

\* C19 (failures surface and leave the cache alone): when the engine rejects
\* the lookup of an awaiting get(k) / has(k), that call fails, it does not
\* return undefined, and no cache changes; and no get / has that fails, for
\* whatever reason, changes a cache.
FailuresSurface ==
  [][/\ \A t \in TxIds :
          (/\ sqltx[t] = "active" /\ sqltx'[t] = "rolledback" /\ queue[t] # <<>>
           /\ Head(queue[t]).sql \in {"select", "select1"})
            => \A c \in calls :
                 c.id = Head(queue[t]).cid
                   => /\ c \notin calls'
                      /\ last'.tx = t /\ last'.kind = c.kind /\ last'.key = c.key
                      /\ last'.outcome = "error"
                      /\ cache' = cache
     /\ (last'.tx # 0 /\ last'.kind \in ReadKinds /\ last'.outcome # "ok")
          => cache' = cache]_vars

\* C19: a get / has has failed on the engine's rejection of its lookup, and
\* the cache has no entry for its key
FailuresSurfaceSeen ==
  /\ last.tx # 0 /\ last.kind \in ReadKinds /\ last.outcome = "error" /\ last.looked
  /\ sqltx[last.tx] = "rolledback"
  /\ ~CacheHas(cache[last.tx], last.key)

\* C20 (read() gives a read-only transaction): through a transaction made by
\* read() no delete and no upsert is passed to the engine, and no row of the
\* table is written.
ReadOnlyRead ==
  \A t \in TxIds :
    ~writeable[t]
      => /\ flushed[t].stmts = <<>>
         /\ \A k \in Keys : table[k].by # t /\ work[k].by # t

====
